---------------------------- MODULE Spec2Model ----------------------------
(***************************************************************************)
(* Model of src/prueba.go: an HTTP service with two handlers, /registro    *)
(* and /login, over an in-memory slice of users (usuarios).                *)
(*                                                                         *)
(* A Go string is modelled as the sequence of its runes (Unicode code      *)
(* points); len(s) of the source is the length of its UTF-8 encoding       *)
(* (ByteLen), `for _, c := range s` visits the runes.  Request bodies are  *)
(* JSON, so every string a handler sees is valid UTF-8.                    *)
(*                                                                         *)
(* net/http runs every request in its own goroutine and the source takes   *)
(* no lock: a handler is split at its accesses to the shared slice, and    *)
(* the steps of different goroutines interleave freely.  A load of         *)
(* usuarios yields the sequence the slice holds at that moment; a range    *)
(* loop works on the value it loaded; append loads the slice and later     *)
(* stores the loaded value extended by one element, so a store can         *)
(* overwrite what another goroutine stored in between.                     *)
(***************************************************************************)
EXTENDS Naturals, Sequences, FiniteSets

VARIABLES
    usuarios,   \* the slice `usuarios` of prueba.go:26, as the sequence it holds
    pc,         \* per goroutine: "idle", "append", "store" or "done"
    kind,       \* per goroutine: "none", "registro" or "login"
    req,        \* per goroutine: the decoded request
    resp,       \* per goroutine: the response written
    local,      \* per goroutine: the slice value it last loaded from usuarios
    served,     \* number of requests accepted so far
    acked,      \* history: <<correo, password>> of every registration answered 201
    reloj,      \* the latest reading of time.Now(), in ticks
    input,      \* validator harness: the string under test
    output      \* validator harness: the validator applied and its verdict

vars == <<usuarios, pc, kind, req, resp, local, served, acked, reloj, input, output>>

handlerVars == <<usuarios, pc, kind, req, resp, local, served, acked, reloj>>

harnessVars == <<input, output>>

-----------------------------------------------------------------------------
(* Strings *)

\* len(s): the number of bytes of the UTF-8 encoding of one rune
Utf8Len(c) == IF c < 128 THEN 1 ELSE IF c < 2048 THEN 2 ELSE IF c < 65536 THEN 3 ELSE 4

RECURSIVE ByteLen(_)
\* len(s) of a Go string: its length in bytes
ByteLen(s) == IF s = <<>> THEN 0 ELSE Utf8Len(Head(s)) + ByteLen(Tail(s))

\* unicode.IsSpace; exact on the code points below U+0100 and on U+0660..U+0669
IsSpace(c) == c \in {9, 10, 11, 12, 13, 32, 133, 160}

\* unicode.IsUpper; exact on the code points below U+0100 and on U+0660..U+0669
IsUpper(c) == (c >= 65 /\ c <= 90) \/ (c >= 192 /\ c <= 214) \/ (c >= 216 /\ c <= 222)

\* unicode.IsLower; exact on the code points below U+0100 and on U+0660..U+0669
IsLower(c) ==
    \/ (c >= 97 /\ c <= 122)
    \/ c = 181
    \/ (c >= 223 /\ c <= 246)
    \/ (c >= 248 /\ c <= 255)

\* unicode.IsDigit (category Nd); exact on the code points up to U+0669
IsDigit(c) == (c >= 48 /\ c <= 57) \/ (c >= 1632 /\ c <= 1641)

RECURSIVE TrimLeft(_)
TrimLeft(s) == IF s # <<>> /\ IsSpace(Head(s)) THEN TrimLeft(Tail(s)) ELSE s

RECURSIVE TrimRight(_)
TrimRight(s) ==
    IF s # <<>> /\ IsSpace(s[Len(s)]) THEN TrimRight(SubSeq(s, 1, Len(s) - 1)) ELSE s

\* strings.TrimSpace
TrimSpace(s) == TrimRight(TrimLeft(s))

RECURSIVE Split(_, _)
\* strings.Split(s, sep) for a one-rune separator: the pieces between separators
Split(s, sep) ==
    IF \A i \in 1..Len(s) : s[i] # sep
    THEN <<s>>
    ELSE LET i == CHOOSE j \in 1..Len(s) : s[j] = sep /\ \A k \in 1..(j - 1) : s[k] # sep
         IN  <<SubSeq(s, 1, i - 1)>> \o Split(SubSeq(s, i + 1, Len(s)), sep)

\* strings.HasPrefix(s, string(c))
HasPrefix(s, c) == s # <<>> /\ s[1] = c

\* strings.HasSuffix(s, string(c))
HasSuffix(s, c) == s # <<>> /\ s[Len(s)] = c

\* strings.Contains(s, string(c))
Contains(s, c) == \E i \in 1..Len(s) : s[i] = c

\* strings.Contains(s, "..")
ContainsDotDot(s) == \E i \in 1..(Len(s) - 1) : s[i] = 46 /\ s[i + 1] = 46

\* dominio[strings.LastIndex(dominio, ".")+1:], for a dominio that contains '.'
AfterLastDot(s) ==
    LET i == CHOOSE j \in 1..Len(s) : s[j] = 46 /\ \A k \in (j + 1)..Len(s) : s[k] # 46
    IN  SubSeq(s, i + 1, Len(s))

-----------------------------------------------------------------------------
(* Validators *)

\* the closure caracteresValidos of validarCorreo
caracteresValidos(s) ==
    \A i \in 1..Len(s) :
        LET c == s[i]
        IN  \/ (c >= 97 /\ c <= 122)
            \/ (c >= 65 /\ c <= 90)
            \/ (c >= 48 /\ c <= 57)
            \/ c = 46
            \/ c = 45
            \/ c = 95
            \/ c = 64

\* validarCorreo with the test of the extension's length left out
validarCorreoSinExtension(correo0) ==
    LET correo == TrimSpace(correo0)
        partes == Split(correo, 64)
    IN  IF correo = <<>> THEN FALSE
        ELSE IF Len(partes) # 2 THEN FALSE
        ELSE LET parteLocal == partes[1]
                 dominio == partes[2]
             IN  IF ByteLen(parteLocal) = 0 \/ ByteLen(parteLocal) > 64 THEN FALSE
                 ELSE IF HasPrefix(parteLocal, 46) \/ HasSuffix(parteLocal, 46) THEN FALSE
                 ELSE IF ContainsDotDot(parteLocal) THEN FALSE
                 ELSE IF ByteLen(dominio) = 0 \/ ByteLen(dominio) > 255 THEN FALSE
                 ELSE IF ~Contains(dominio, 46) THEN FALSE
                 ELSE IF \/ HasPrefix(dominio, 46) \/ HasSuffix(dominio, 46)
                         \/ HasPrefix(dominio, 45) \/ HasSuffix(dominio, 45) THEN FALSE
                 ELSE caracteresValidos(correo)

\* validarCorreo: the parameter is reassigned to its trimmed value first, so
\* every later check, the character check included, reads the trimmed string
validarCorreo(correo0) ==
    LET correo == TrimSpace(correo0)
        partes == Split(correo, 64)
    IN  IF correo = <<>> THEN FALSE
        ELSE IF Len(partes) # 2 THEN FALSE
        ELSE LET parteLocal == partes[1]
                 dominio == partes[2]
             IN  IF ByteLen(parteLocal) = 0 \/ ByteLen(parteLocal) > 64 THEN FALSE
                 ELSE IF HasPrefix(parteLocal, 46) \/ HasSuffix(parteLocal, 46) THEN FALSE
                 ELSE IF ContainsDotDot(parteLocal) THEN FALSE
                 ELSE IF ByteLen(dominio) = 0 \/ ByteLen(dominio) > 255 THEN FALSE
                 ELSE IF ~Contains(dominio, 46) THEN FALSE
                 ELSE IF \/ HasPrefix(dominio, 46) \/ HasSuffix(dominio, 46)
                         \/ HasPrefix(dominio, 45) \/ HasSuffix(dominio, 45) THEN FALSE
                 ELSE IF ByteLen(AfterLastDot(dominio)) < 2 THEN FALSE
                 ELSE caracteresValidos(correo)

\* validarTelefono with the digit test widened to unicode.IsDigit
validarTelefonoAnyDigit(telefono) ==
    IF ByteLen(telefono) # 10 THEN FALSE
    ELSE \A i \in 1..Len(telefono) : IsDigit(telefono[i])

\* validarTelefono
validarTelefono(telefono) ==
    IF ByteLen(telefono) # 10 THEN FALSE
    ELSE \A i \in 1..Len(telefono) : ~(telefono[i] < 48 \/ telefono[i] > 57)

\* the string especiales of validarPassword, "@$&"
especiales == <<64, 36, 38>>

RECURSIVE ClasificarPassword(_, _)
\* the loop of validarPassword: each rune sets the flag of the first case of
\* the switch it satisfies
ClasificarPassword(s, f) ==
    IF s = <<>> THEN f
    ELSE LET c == Head(s)
             g == IF IsUpper(c) THEN [f EXCEPT !.tieneMayus = TRUE]
                  ELSE IF IsLower(c) THEN [f EXCEPT !.tieneMinus = TRUE]
                  ELSE IF IsDigit(c) THEN [f EXCEPT !.tieneNumero = TRUE]
                  ELSE IF Contains(especiales, c) THEN [f EXCEPT !.tieneEspecial = TRUE]
                  ELSE f
         IN  ClasificarPassword(Tail(s), g)

\* validarPassword
validarPassword(password) ==
    IF ByteLen(password) < 6 \/ ByteLen(password) > 12 THEN FALSE
    ELSE LET f == ClasificarPassword(password,
                      [tieneMayus |-> FALSE, tieneMinus |-> FALSE,
                       tieneNumero |-> FALSE, tieneEspecial |-> FALSE])
         IN  f.tieneMayus /\ f.tieneMinus /\ f.tieneNumero /\ f.tieneEspecial

-----------------------------------------------------------------------------
(* Requests and responses *)

\* number of goroutines serving requests at the same time
NumProcs == 2

\* number of requests the server accepts in one run
MaxRequests == 3

Procs == 1..NumProcs

Vacio == <<>>

\* "a@b.co", "c@b.co", "A@b.co", and "a@b", which has no extension
CorreoA == <<97, 64, 98, 46, 99, 111>>
CorreoC == <<99, 64, 98, 46, 99, 111>>
CorreoMayus == <<65, 64, 98, 46, 99, 111>>
CorreoMalo == <<97, 64, 98>>

\* " a@b.co": CorreoA after one space
CorreoEspacio == <<32>> \o CorreoA

\* "5551234567", "5559999999", and "12345"
Telefono1 == <<53, 53, 53, 49, 50, 51, 52, 53, 54, 55>>
Telefono2 == <<53, 53, 53, 57, 57, 57, 57, 57, 57, 57>>
TelefonoMalo == <<49, 50, 51, 52, 53>>

\* "Pass123@", "Clave9$", "pass123@" and "wrong1@" (the last two have no uppercase)
Password1 == <<80, 97, 115, 115, 49, 50, 51, 64>>
Password2 == <<67, 108, 97, 118, 101, 57, 36>>
PasswordMinus == <<112, 97, 115, 115, 49, 50, 51, 64>>
PasswordMalo == <<119, 114, 111, 110, 103, 49, 64>>

\* a body json.Decoder rejects: the handler reads no field of it
CuerpoInvalido == [ok |-> FALSE, Correo |-> Vacio, Telefono |-> Vacio, Password |-> Vacio]

\* RegistroRequest values as decoded; an absent field decodes to ""
RegistroRequests ==
    {CuerpoInvalido} \cup
    [ok : {TRUE},
     Correo : {Vacio, CorreoMalo, CorreoA, CorreoC, CorreoEspacio},
     Telefono : {Vacio, TelefonoMalo, Telefono1, Telefono2},
     Password : {Vacio, PasswordMalo, Password1, Password2}]

\* LoginRequest values as decoded (Telefono is no field of it and stays "")
LoginRequests ==
    {CuerpoInvalido} \cup
    [ok : {TRUE},
     Correo : {Vacio, CorreoMalo, CorreoA, CorreoMayus, CorreoC},
     Telefono : {Vacio},
     Password : {Vacio, PasswordMalo, Password1, PasswordMinus, Password2}]

NoReq == [ok |-> FALSE, Correo |-> Vacio, Telefono |-> Vacio, Password |-> Vacio]

\* no response written yet
NoResp == [status |-> 0, body |-> "-"]

\* w.WriteHeader(status) followed by the JSON body {"error": msg}
ErrorResponse(status, msg) == [status |-> status, body |-> msg]

\* Usuario with the correo stored as validarCorreo reads it, trimmed
UsuarioRecortado(r) ==
    [Correo |-> TrimSpace(r.Correo), Telefono |-> r.Telefono, Password |-> r.Password]

\* the Usuario appended by registroHandler
Usuario(r) == [Correo |-> r.Correo, Telefono |-> r.Telefono, Password |-> r.Password]

-----------------------------------------------------------------------------
(* registroHandler *)

RECURSIVE RevisarDuplicados(_, _)
\* the loop "Revisión de duplicados": the first user, in slice order, that has
\* the request's correo or its telefono decides the answer, correo tested first
RevisarDuplicados(us, r) ==
    IF us = <<>> THEN NoResp
    ELSE IF Head(us).Correo = r.Correo
         THEN ErrorResponse(409, "El correo ya se encuentra registrado")
    ELSE IF Head(us).Telefono = r.Telefono
         THEN ErrorResponse(409, "El teléfono ya se encuentra registrado")
    ELSE RevisarDuplicados(Tail(us), r)

\* RegistroRevisar with the format of correo checked before the presence of
\* telefono and password
RegistroRevisarCorreoPrimero(r, us) ==
    IF ~r.ok THEN ErrorResponse(400, "Cuerpo inválido")
    ELSE IF r.Correo = Vacio THEN ErrorResponse(400, "Falta el campo correo")
    ELSE IF ~validarCorreo(r.Correo) THEN ErrorResponse(400, "Correo inválido")
    ELSE IF r.Telefono = Vacio THEN ErrorResponse(400, "Falta el campo telefono")
    ELSE IF r.Password = Vacio THEN ErrorResponse(400, "Falta el campo contraseña")
    ELSE IF ~validarTelefono(r.Telefono) THEN ErrorResponse(400, "Teléfono inválido")
    ELSE IF ~validarPassword(r.Password) THEN ErrorResponse(400, "Contraseña inválida")
    ELSE RevisarDuplicados(us, r)

\* registroHandler up to its append: the error it answers with for request r
\* when the slice it ranges over holds us, NoResp when every check passes
RegistroRevisar(r, us) ==
    IF ~r.ok THEN ErrorResponse(400, "Cuerpo inválido")
    ELSE IF r.Correo = Vacio THEN ErrorResponse(400, "Falta el campo correo")
    ELSE IF r.Telefono = Vacio THEN ErrorResponse(400, "Falta el campo telefono")
    ELSE IF r.Password = Vacio THEN ErrorResponse(400, "Falta el campo contraseña")
    ELSE IF ~validarCorreo(r.Correo) THEN ErrorResponse(400, "Correo inválido")
    ELSE IF ~validarTelefono(r.Telefono) THEN ErrorResponse(400, "Teléfono inválido")
    ELSE IF ~validarPassword(r.Password) THEN ErrorResponse(400, "Contraseña inválida")
    ELSE RevisarDuplicados(us, r)

\* Registro with the return after the duplicate-telefono answer left out: the
\* handler answers 409 and appends all the same
RegistroSinReturn(p) ==
    /\ pc[p] = "idle"
    /\ served < MaxRequests
    /\ \E r \in RegistroRequests :
        LET e == RegistroRevisar(r, usuarios)
            sigue == e = ErrorResponse(409, "El teléfono ya se encuentra registrado")
        IN  /\ req' = [req EXCEPT ![p] = r]
            /\ kind' = [kind EXCEPT ![p] = "registro"]
            /\ resp' = [resp EXCEPT ![p] = e]
            /\ pc' = [pc EXCEPT ![p] = IF e = NoResp THEN "append" ELSE "done"]
            /\ usuarios' = IF sigue THEN Append(usuarios, Usuario(r)) ELSE usuarios
    /\ served' = served + 1
    /\ UNCHANGED <<local, acked, reloj, harnessVars>>

\* A request arrives at /registro: decode, presence, format, and the range
\* over usuarios (one load of the slice); the handler returns on an error
Registro(p) ==
    /\ pc[p] = "idle"
    /\ served < MaxRequests
    /\ \E r \in RegistroRequests :
        LET e == RegistroRevisar(r, usuarios)
        IN  /\ req' = [req EXCEPT ![p] = r]
            /\ kind' = [kind EXCEPT ![p] = "registro"]
            /\ resp' = [resp EXCEPT ![p] = e]
            /\ pc' = [pc EXCEPT ![p] = IF e = NoResp THEN "append" ELSE "done"]
    /\ served' = served + 1
    /\ UNCHANGED <<usuarios, local, acked, reloj, harnessVars>>

\* usuarios = append(usuarios, ...), first half: the slice is loaded
AppendLoad(p) ==
    /\ pc[p] = "append"
    /\ local' = [local EXCEPT ![p] = usuarios]
    /\ pc' = [pc EXCEPT ![p] = "store"]
    /\ UNCHANGED <<usuarios, kind, req, resp, served, acked, reloj, harnessVars>>

\* usuarios = append(usuarios, ...), second half: the slice that was loaded,
\* with the new Usuario after it, is stored; then 201 is answered
AppendStore(p) ==
    /\ pc[p] = "store"
    /\ usuarios' = Append(local[p], Usuario(req[p]))
    /\ resp' = [resp EXCEPT ![p] =
                    [status |-> 201, body |-> "Usuario registrado exitosamente"]]
    /\ acked' = acked \cup {<<req[p].Correo, req[p].Password>>}
    /\ local' = [local EXCEPT ![p] = <<>>]
    /\ pc' = [pc EXCEPT ![p] = "done"]
    /\ UNCHANGED <<kind, req, served, reloj, harnessVars>>

-----------------------------------------------------------------------------
(* loginHandler *)

\* BuscarUsuario with the password comparison left out
BuscarUsuarioSoloCorreo(us, r) == \E i \in 1..Len(us) : us[i].Correo = r.Correo

RECURSIVE BuscarUsuario(_, _)
\* the loop "Búsqueda de usuario": whether some user has both the request's
\* correo and its password
BuscarUsuario(us, r) ==
    IF us = <<>> THEN FALSE
    ELSE IF Head(us).Correo = r.Correo /\ Head(us).Password = r.Password THEN TRUE
    ELSE BuscarUsuario(Tail(us), r)

\* LoginResponder with a separate answer for a known correo with another password
LoginResponderDelator(r, us) ==
    IF ~r.ok THEN ErrorResponse(400, "Cuerpo inválido")
    ELSE IF r.Correo = Vacio THEN ErrorResponse(400, "Falta el campo correo")
    ELSE IF r.Password = Vacio THEN ErrorResponse(400, "Falta el campo contraseña")
    ELSE IF \A i \in 1..Len(us) : us[i].Correo # r.Correo
         THEN ErrorResponse(401, "Correo o contraseña incorrectos")
    ELSE IF \A i \in 1..Len(us) : ~(us[i].Correo = r.Correo /\ us[i].Password = r.Password)
         THEN ErrorResponse(401, "Contraseña incorrecta")
    ELSE [status |-> 200, body |-> "token"]

\* LoginResponder with registroHandler's format validation after the presence checks
LoginResponderConFormato(r, us) ==
    IF ~r.ok THEN ErrorResponse(400, "Cuerpo inválido")
    ELSE IF r.Correo = Vacio THEN ErrorResponse(400, "Falta el campo correo")
    ELSE IF r.Password = Vacio THEN ErrorResponse(400, "Falta el campo contraseña")
    ELSE IF ~validarCorreo(r.Correo) THEN ErrorResponse(400, "Formato de correo inválido")
    ELSE IF ~BuscarUsuario(us, r) THEN ErrorResponse(401, "Correo o contraseña incorrectos")
    ELSE [status |-> 200, body |-> "token"]

\* loginHandler: its answer to request r when the slice it ranges over holds us
LoginResponder(r, us) ==
    IF ~r.ok THEN ErrorResponse(400, "Cuerpo inválido")
    ELSE IF r.Correo = Vacio THEN ErrorResponse(400, "Falta el campo correo")
    ELSE IF r.Password = Vacio THEN ErrorResponse(400, "Falta el campo contraseña")
    ELSE IF ~BuscarUsuario(us, r) THEN ErrorResponse(401, "Correo o contraseña incorrectos")
    ELSE [status |-> 200, body |-> "token"]

\* ticks of the clock in one second: time.Now() is finer than Unix seconds
TicksPorSegundo == 2

\* time.Hour * 24, in seconds
UnDia == 86400

\* the clock is followed up to this reading
MaxReloj == 3

\* most ticks that pass between two readings of the clock that follow each other
MaxDemora == 1

\* `var usuario *Usuario` before the loop: no user
UsuarioNil == [Correo |-> Vacio, Telefono |-> Vacio, Password |-> Vacio]

RECURSIVE UsuarioEncontrado(_, _)
\* the loop "Búsqueda de usuario": the user `usuario` points to after it, the
\* first one with the request's correo and password
UsuarioEncontrado(us, r) ==
    IF us = <<>> THEN UsuarioNil
    ELSE IF Head(us).Correo = r.Correo /\ Head(us).Password = r.Password THEN Head(us)
    ELSE UsuarioEncontrado(Tail(us), r)

\* MapClaims with "exp" the reading itself, no day added
MapClaimsSinDia(correo, t) == [correo |-> correo, exp |-> t \div TicksPorSegundo]

\* jwt.MapClaims of loginHandler when time.Now() reads t: Unix() drops what
\* is less than a second
MapClaims(correo, t) ==
    [correo |-> correo, exp |-> (t + UnDia * TicksPorSegundo) \div TicksPorSegundo]

\* the LoginResponse written with status 200; the signed token is held as
\* the claims it encodes
LoginResponse(claims, t) ==
    [status |-> 200, body |-> "token", token |-> claims, fecha_inicio |-> t]

\* A request arrives at /login: the handler reads usuarios once (the range)
\* and writes nothing shared; when it finds the user it reads the clock
\* twice, for "exp" first and for FechaInicio after signing
Login(p) ==
    /\ pc[p] = "idle"
    /\ served < MaxRequests
    /\ \E r \in LoginRequests :
        LET e == LoginResponder(r, usuarios) IN
        /\ req' = [req EXCEPT ![p] = r]
        /\ kind' = [kind EXCEPT ![p] = "login"]
        /\ IF e.status = 200
           THEN \E t1 \in reloj..(reloj + MaxDemora) :
                \E t2 \in t1..(t1 + MaxDemora) :
                    /\ t2 <= MaxReloj
                    /\ resp' = [resp EXCEPT ![p] =
                                  LoginResponse(MapClaims(UsuarioEncontrado(usuarios, r).Correo, t1), t2)]
                    /\ reloj' = t2
           ELSE /\ resp' = [resp EXCEPT ![p] = e]
                /\ reloj' = reloj
    /\ pc' = [pc EXCEPT ![p] = "done"]
    /\ served' = served + 1
    /\ UNCHANGED <<usuarios, local, acked, harnessVars>>

\* The handler has returned; the goroutine ends and another may be started
Finish(p) ==
    /\ pc[p] = "done"
    /\ pc' = [pc EXCEPT ![p] = "idle"]
    /\ kind' = [kind EXCEPT ![p] = "none"]
    /\ req' = [req EXCEPT ![p] = NoReq]
    /\ resp' = [resp EXCEPT ![p] = NoResp]
    /\ UNCHANGED <<usuarios, local, served, acked, reloj, harnessVars>>

-----------------------------------------------------------------------------
(* The server *)

Init ==
    /\ usuarios = <<>>
    /\ pc = [p \in Procs |-> "idle"]
    /\ kind = [p \in Procs |-> "none"]
    /\ req = [p \in Procs |-> NoReq]
    /\ resp = [p \in Procs |-> NoResp]
    /\ local = [p \in Procs |-> <<>>]
    /\ served = 0
    /\ acked = {}
    /\ reloj = 0
    /\ input = <<>>
    /\ output = [fn |-> "none", res |-> FALSE]

Next ==
    \E p \in Procs :
        \/ Registro(p)
        \/ AppendLoad(p)
        \/ AppendStore(p)
        \/ Login(p)
        \/ Finish(p)

Spec == Init /\ [][Next]_vars

\* The same server when its requests arrive one after another: a step is
\* taken only while no other goroutine is inside a handler
NextSecuencial ==
    \E p \in Procs :
        /\ \A q \in Procs \ {p} : pc[q] \in {"idle", "done"}
        /\ \/ Registro(p)
           \/ AppendLoad(p)
           \/ AppendStore(p)
           \/ Login(p)
           \/ Finish(p)

SpecSecuencial == Init /\ [][NextSecuencial]_vars

-----------------------------------------------------------------------------
(* Claims about the handlers, under Spec *)

DuplicateEmail == ErrorResponse(409, "El correo ya se encuentra registrado")

DuplicatePhone == ErrorResponse(409, "El teléfono ya se encuentra registrado")

InvalidCredentials == ErrorResponse(401, "Correo o contraseña incorrectos")

\* a request whose three fields are present and pass format validation
Valida(r) ==
    /\ r.ok
    /\ r.Correo # Vacio /\ r.Telefono # Vacio /\ r.Password # Vacio
    /\ validarCorreo(r.Correo) /\ validarTelefono(r.Telefono) /\ validarPassword(r.Password)

\* goroutine p takes, in this step, a request of kind k from the network
Recibe(p, k) == pc[p] = "idle" /\ kind'[p] = k

\* goroutine p holds an answered request of kind k
Respondido(p, k) == pc[p] = "done" /\ kind[p] = k

\* C1: in every reachable state the registry holds no two identities with
\* the same email and no two with the same phone.
C1_UniqueEmailAndPhone ==
    \A i, j \in 1..Len(usuarios) :
        i # j => /\ usuarios[i].Correo # usuarios[j].Correo
                 /\ usuarios[i].Telefono # usuarios[j].Telefono

\* C2, for N = 2 against the empty registry: when the only two requests so
\* far are registrations with the same valid email, exactly one was answered
\* 201, the other DuplicateEmail, and the registry holds exactly one identity
\* with that email.
C2_ExactlyOneSucceeds ==
    \A p, q \in Procs :
        ( /\ p # q
          /\ served = 2
          /\ Respondido(p, "registro") /\ Respondido(q, "registro")
          /\ Valida(req[p]) /\ Valida(req[q])
          /\ req[p].Correo = req[q].Correo )
        => /\ {resp[p].status, resp[q].status} = {201, 409}
           /\ resp[p].status = 409 => resp[p] = DuplicateEmail
           /\ resp[q].status = 409 => resp[q] = DuplicateEmail
           /\ Cardinality({i \in 1..Len(usuarios) :
                              usuarios[i].Correo = req[p].Correo}) = 1

\* C3: a registration whose fields are present and valid fails with
\* DuplicateEmail whenever some identity of the registry has its email,
\* whatever its phone; it fails with DuplicatePhone only when no identity has
\* its email and some identity has its phone.  Checked under SpecSecuencial:
\* the statement fails with no two requests ever in flight together.
C3_EmailDecidesFirst ==
    [][\A p \in Procs :
          (Recibe(p, "registro") /\ Valida(req'[p])) =>
              LET r == req'[p]
                  hayCorreo == \E i \in 1..Len(usuarios) : usuarios[i].Correo = r.Correo
                  hayTelefono == \E i \in 1..Len(usuarios) : usuarios[i].Telefono = r.Telefono
              IN  /\ hayCorreo => resp'[p] = DuplicateEmail
                  /\ resp'[p] = DuplicatePhone => (~hayCorreo /\ hayTelefono)
      ]_vars

\* C4: a registration that ends in a failure took no step before the one
\* that answers it, and that step leaves the registry as it was.
C4_FailureLeavesRegistry ==
    [][\A p \in Procs :
          ( /\ pc[p] # "done"
            /\ pc'[p] = "done"
            /\ kind'[p] = "registro"
            /\ resp'[p].status # 201 )
          => (pc[p] = "idle" /\ usuarios' = usuarios)
      ]_vars

\* C4 witness: a registration was refused as a duplicate, and one as
\* invalid, with identities in the registry
C4_Witness ==
    \E p, q \in Procs :
        /\ Respondido(p, "registro") /\ resp[p].status = 409
        /\ Respondido(q, "registro") /\ resp[q].status = 400
        /\ Len(usuarios) >= 1

\* C5: once a registration of (email, password) was answered 201, every
\* later login with that email and password succeeds.
C5_RegisteredCanLogin ==
    [][\A p \in Procs :
          ( /\ Recibe(p, "login")
            /\ req'[p].ok
            /\ <<req'[p].Correo, req'[p].Password>> \in acked )
          => resp'[p].status = 200
      ]_vars

\* C6: a login with non-empty email and password succeeds if and only if the
\* registry, when the handler reads it, holds an identity whose email and
\* secret both equal the request's rune for rune; otherwise it fails with
\* InvalidCredentials.
C6_LoginIffExactMatch ==
    [][\A p \in Procs :
          ( /\ Recibe(p, "login")
            /\ req'[p].ok
            /\ req'[p].Correo # Vacio
            /\ req'[p].Password # Vacio )
          => IF \E i \in 1..Len(usuarios) :
                    /\ usuarios[i].Correo = req'[p].Correo
                    /\ usuarios[i].Password = req'[p].Password
             THEN resp'[p].status = 200
             ELSE resp'[p] = InvalidCredentials
      ]_vars

\* C6 witness: one login succeeded, and one with the same email and the
\* secret in another case was refused
C6_Witness ==
    \E p, q \in Procs :
        /\ Respondido(p, "login") /\ resp[p].status = 200
        /\ Respondido(q, "login") /\ resp[q] = InvalidCredentials
        /\ req[q].Correo = req[p].Correo
        /\ req[p].Password = Password1
        /\ req[q].Password = PasswordMinus

\* the login of goroutine p has non-empty fields and found no match
LoginFallido(p) ==
    /\ Respondido(p, "login")
    /\ req[p].ok
    /\ req[p].Correo # Vacio
    /\ req[p].Password # Vacio
    /\ resp[p].status # 200

\* C7: two failed logins with non-empty fields, one for a registered email
\* and one for an email never registered, get identical responses.
C7_FailuresIndistinguishable ==
    \A p, q \in Procs :
        ( /\ LoginFallido(p)
          /\ LoginFallido(q)
          /\ \E i \in 1..Len(usuarios) : usuarios[i].Correo = req[p].Correo
          /\ \A i \in 1..Len(usuarios) : usuarios[i].Correo # req[q].Correo
          /\ \A a \in acked : a[1] # req[q].Correo )
        => resp[p] = resp[q]

\* C7 witness: such a pair of failed logins
C7_Witness ==
    \E p, q \in Procs :
        /\ LoginFallido(p)
        /\ LoginFallido(q)
        /\ \E i \in 1..Len(usuarios) : usuarios[i].Correo = req[p].Correo
        /\ \A i \in 1..Len(usuarios) : usuarios[i].Correo # req[q].Correo
        /\ \A a \in acked : a[1] # req[q].Correo

\* C8: a registration reports the first failing check in the order
\* MissingField(email), MissingField(phone), MissingField(password),
\* InvalidFormat(email), InvalidFormat(phone), InvalidFormat(password), and
\* only then a duplicate.
C8_FirstFailingCheck ==
    \A p \in Procs :
        (Respondido(p, "registro") /\ req[p].ok) =>
            LET r == req[p]
            IN  IF r.Correo = Vacio
                    THEN resp[p] = ErrorResponse(400, "Falta el campo correo")
                ELSE IF r.Telefono = Vacio
                    THEN resp[p] = ErrorResponse(400, "Falta el campo telefono")
                ELSE IF r.Password = Vacio
                    THEN resp[p] = ErrorResponse(400, "Falta el campo contraseña")
                ELSE IF ~validarCorreo(r.Correo)
                    THEN resp[p] = ErrorResponse(400, "Correo inválido")
                ELSE IF ~validarTelefono(r.Telefono)
                    THEN resp[p] = ErrorResponse(400, "Teléfono inválido")
                ELSE IF ~validarPassword(r.Password)
                    THEN resp[p] = ErrorResponse(400, "Contraseña inválida")
                ELSE resp[p].status \in {201, 409}

\* C8 witness: a request with an invalid email and an empty phone was
\* answered MissingField(phone), and one was refused as a duplicate
C8_Witness ==
    \E p, q \in Procs :
        /\ Respondido(p, "registro")
        /\ req[p].Correo = CorreoMalo
        /\ req[p].Telefono = Vacio
        /\ resp[p] = ErrorResponse(400, "Falta el campo telefono")
        /\ Respondido(q, "registro")
        /\ resp[q].status = 409

\* C12: on every successful login the token's subject is the email of the
\* login request, and the token's expiry is the issuance timestamp returned
\* in the same response plus exactly 24 hours.
C12_SubjectAndExpiry ==
    \A p \in Procs :
        (Respondido(p, "login") /\ resp[p].status = 200) =>
            /\ resp[p].token.correo = req[p].Correo
            /\ resp[p].token.exp * TicksPorSegundo =
                   resp[p].fecha_inicio + UnDia * TicksPorSegundo

\* C12 as amended: on every successful login the token's subject is the
\* email of the login request, and the token's expiry is, in whole seconds
\* and dropping the fraction, 24 hours after a reading of the clock taken
\* during the request, no later than the issuance timestamp returned, which
\* is the last reading taken.
C12_SubjectAndExpirySeconds ==
    [][\A p \in Procs :
         (Recibe(p, "login") /\ resp'[p].status = 200) =>
            /\ resp'[p].token.correo = req'[p].Correo
            /\ resp'[p].fecha_inicio = reloj'
            /\ \E t \in reloj..reloj' :
                  resp'[p].token.exp = (t \div TicksPorSegundo) + UnDia]_vars

\* C12 witness: a login answered 200 whose timestamp is past the whole second
\* its expiry counts 24 hours from
C12_Witness ==
    \E p \in Procs :
        /\ Respondido(p, "login")
        /\ resp[p].status = 200
        /\ resp[p].fecha_inicio > (resp[p].token.exp - UnDia) * TicksPorSegundo

\* C14: the registry is append-only under any interleaving: every step
\* leaves it unchanged or appends exactly one identity at its end, and a
\* step that takes a login request leaves it unchanged.
C14_AppendOnly ==
    [][/\ \/ usuarios' = usuarios
          \/ /\ Len(usuarios') = Len(usuarios) + 1
             /\ SubSeq(usuarios', 1, Len(usuarios)) = usuarios
       /\ \A p \in Procs : Recibe(p, "login") => usuarios' = usuarios]_vars

\* an identity whose three fields are non-empty, with an email validarCorreo
\* accepts, a phone of exactly 10 ASCII digits and a password validarPassword
\* accepts
IdentidadValida(u) ==
    /\ u.Correo # Vacio /\ u.Telefono # Vacio /\ u.Password # Vacio
    /\ validarCorreo(u.Correo)
    /\ Len(u.Telefono) = 10
    /\ \A i \in 1..Len(u.Telefono) : u.Telefono[i] >= 48 /\ u.Telefono[i] <= 57
    /\ validarPassword(u.Password)

\* C15: in every reachable state every identity of the registry has three
\* non-empty fields, an email the email validator accepts, a phone of
\* exactly 10 ASCII digits and a password the password validator accepts;
\* and the identity a registration stores holds the three fields of its
\* request verbatim.
C15_StoredIdentities ==
    /\ [](\A i \in 1..Len(usuarios) : IdentidadValida(usuarios[i]))
    /\ [][\A p \in Procs :
            (pc[p] = "store" /\ pc'[p] = "done") =>
                /\ usuarios' # <<>>
                /\ usuarios'[Len(usuarios')].Correo = req[p].Correo
                /\ usuarios'[Len(usuarios')].Telefono = req[p].Telefono
                /\ usuarios'[Len(usuarios')].Password = req[p].Password]_vars

\* C15 witness: the registry holds an identity whose email begins with the
\* space it was submitted with
C15_Witness ==
    \E i \in 1..Len(usuarios) :
        /\ usuarios[i].Correo = CorreoEspacio
        /\ \E p \in Procs : Respondido(p, "registro") /\ req[p].Correo = CorreoEspacio

\* C16: login validates presence only, email before password: an empty
\* email is answered "Falta el campo correo" even when the password is empty
\* too, an empty password with an email "Falta el campo contraseña", and with
\* both present no format is validated: an email or a password of invalid
\* format reaches the lookup and is answered "Correo o contraseña incorrectos".
C16_LoginPresenceOnly ==
    \A p \in Procs :
        (Respondido(p, "login") /\ req[p].ok) =>
            IF req[p].Correo = Vacio
            THEN resp[p] = ErrorResponse(400, "Falta el campo correo")
            ELSE IF req[p].Password = Vacio
            THEN resp[p] = ErrorResponse(400, "Falta el campo contraseña")
            ELSE /\ resp[p].status \in {200, 401}
                 /\ (~validarCorreo(req[p].Correo) \/ ~validarPassword(req[p].Password))
                        => resp[p] = InvalidCredentials

\* C16 witness: a login with an email of invalid format and a password was
\* answered "Correo o contraseña incorrectos"
C16_Witness ==
    \E p \in Procs :
        /\ Respondido(p, "login")
        /\ req[p].Correo = CorreoMalo
        /\ req[p].Password = Password1
        /\ resp[p] = InvalidCredentials

-----------------------------------------------------------------------------
(* The validators on their own *)

\* longest prefix of a string under test
MaxPrefix == 3

\* longest run of one repeated rune after the prefix
MaxPad == 10

\* 'A', 'a', '0', '9', '@', '/', ':', U+00E9 (a lowercase letter of two bytes)
\* and U+0663 (a decimal digit of two bytes)
Alfabeto == {65, 97, 48, 57, 64, 47, 58, 233, 1635}

\* the runes a string under test may end with a run of: '0', 'a', U+00E9
Relleno == {48, 97, 233}

\* longest email under test, not counting one space before or after it
MaxCorreo == 6

\* 'a', '@', '.', ' ' and '#'
AlfabetoCorreo == {97, 64, 46, 32, 35}

\* the emails under test: a string over AlfabetoCorreo, as it is or with one
\* space before it or after it
EntradasCorreo ==
    LET nucleos == UNION {[1..k -> AlfabetoCorreo] : k \in 0..MaxCorreo}
    IN  nucleos \cup {<<32>> \o x : x \in nucleos} \cup {x \o <<32>> : x \in nucleos}

\* the strings under test: a prefix over Alfabeto, then one rune repeated;
\* and the emails under test
Entradas ==
    LET prefijos == UNION {[1..k -> Alfabeto] : k \in 0..MaxPrefix}
        colas == {<<>>} \cup {[i \in 1..j |-> c] : j \in 1..MaxPad, c \in Relleno}
    IN  {x \o y : x \in prefijos, y \in colas} \cup EntradasCorreo

InitValidadores ==
    /\ usuarios = <<>>
    /\ pc = [p \in Procs |-> "idle"]
    /\ kind = [p \in Procs |-> "none"]
    /\ req = [p \in Procs |-> NoReq]
    /\ resp = [p \in Procs |-> NoResp]
    /\ local = [p \in Procs |-> <<>>]
    /\ served = 0
    /\ acked = {}
    /\ reloj = 0
    /\ input \in Entradas
    /\ output = [fn |-> "none", res |-> FALSE]

AplicarCorreo ==
    /\ output.fn = "none"
    /\ output' = [fn |-> "validarCorreo", res |-> validarCorreo(input)]
    /\ UNCHANGED <<input, handlerVars>>

AplicarTelefono ==
    /\ output.fn = "none"
    /\ output' = [fn |-> "validarTelefono", res |-> validarTelefono(input)]
    /\ UNCHANGED <<input, handlerVars>>

AplicarPassword ==
    /\ output.fn = "none"
    /\ output' = [fn |-> "validarPassword", res |-> validarPassword(input)]
    /\ UNCHANGED <<input, handlerVars>>

NextValidadores == AplicarCorreo \/ AplicarTelefono \/ AplicarPassword

SpecValidadores == InitValidadores /\ [][NextValidadores]_vars

-----------------------------------------------------------------------------
(* Claims about the validators, under SpecValidadores *)

\* C9: the password validator accepts s if and only if s is between 6 and 12
\* characters long and holds an uppercase letter, a lowercase letter, a
\* decimal digit and one of '@', '$', '&'.  The source measures the length in
\* bytes, so the statement fails on strings with runes of more than one byte.
C9_PasswordIffCharacters ==
    output.fn = "validarPassword" =>
        (output.res <=>
            /\ Len(input) >= 6
            /\ Len(input) <= 12
            /\ \E i \in 1..Len(input) : IsUpper(input[i])
            /\ \E i \in 1..Len(input) : IsLower(input[i])
            /\ \E i \in 1..Len(input) : IsDigit(input[i])
            /\ \E i \in 1..Len(input) : input[i] \in {64, 36, 38})

\* C10: the phone validator accepts s if and only if s is exactly 10
\* characters long and every character is an ASCII digit '0'..'9'.
C10_TelefonoIffTenDigits ==
    output.fn = "validarTelefono" =>
        (output.res <=>
            /\ Len(input) = 10
            /\ \A i \in 1..Len(input) : input[i] \in 48..57)

\* C10 witness: a string of ten ASCII digits was accepted, and the harness
\* also holds strings of ten bytes that are not ten digits
C10_Witness ==
    /\ output.fn = "validarTelefono"
    /\ output.res
    /\ Len(input) = 10

\* the runes of s after its last occurrence of rune c, for an s that holds c
Despues(s, c) ==
    LET i == CHOOSE j \in 1..Len(s) : s[j] = c /\ \A k \in (j + 1)..Len(s) : s[k] # c
    IN  SubSeq(s, i + 1, Len(s))

\* the runes an email may hold: a-z, A-Z, 0-9, '.', '_', '@', '-'
RunasDeCorreo == (97..122) \cup (65..90) \cup (48..57) \cup {46, 95, 64, 45}

\* C11: every string accepted by the email validator contains exactly one
\* '@', and what follows the last '.' of its domain part has length at
\* least 2.
C11_OneAtAndExtension ==
    (output.fn = "validarCorreo" /\ output.res) =>
        /\ Cardinality({i \in 1..Len(input) : input[i] = 64}) = 1
        /\ Contains(Despues(input, 64), 46)
        /\ Len(Despues(Despues(input, 64), 46)) >= 2

\* C11 witness: an email whose extension has exactly two characters was
\* accepted
C11_Witness ==
    /\ output.fn = "validarCorreo"
    /\ output.res
    /\ Len(Despues(input, 46)) = 2

\* C13: every string accepted by the email validator consists solely of the
\* characters a-z, A-Z, 0-9, '.', '_', '@', '-', the string being taken
\* whole, as submitted.
C13_OnlyEmailCharacters ==
    (output.fn = "validarCorreo" /\ output.res) =>
        \A i \in 1..Len(input) : input[i] \in RunasDeCorreo

=============================================================================
